---- MODULE Spec2Model ----
(***************************************************************************)
(* sip-user-card: a zero-height Lovelace card that pins a SIP identity on  *)
(* a device.  The model covers SIPUserCard (src/src/sip-user-card.ts) and  *)
(* the parts of its collaborator sipCore (./sip-core, localStorage, the    *)
(* "sipcore-update" window event) that the card touches.                   *)
(*                                                                         *)
(* JavaScript values: a string is a TLA+ string; `undefined` is the marker *)
(* Undefined (a string outside every value set below); a missing object    *)
(* (config === undefined, no stored ForceUser) is the record Null.         *)
(***************************************************************************)
EXTENDS Integers, Sequences, FiniteSets, TLC

\* Length of the explored runs (number of host / operator / subsystem events).
MaxSteps == 4

\* The card instances on the device's dashboards.
Inst == {"A", "B"}

Undefined == "<undefined>"
Null == [absent |-> TRUE]

Extensions == {Undefined, "", "100", "200"}
Passwords == {Undefined, "", "mypw", "pw2"}
DisplayNames == {Undefined, "Lobby"}

\* interface SIPUserCardConfig, as the host may hand it over (YAML is not
\* type-checked, so required fields may be missing or empty).
SIPUserCardConfig ==
    [extension : Extensions, password : Passwords, display_name : DisplayNames]

VARIABLES
    ForceUser,        \* sipCore.ForceUser: the record persisted in localStorage, or Null
    session,          \* identity the registration subsystem last (re)started its session under
    registered,       \* sipCore.registered
    listeners,        \* window's "sipcore-update" listener list: registrations per instance
    config,           \* this.config of each instance
    isConnected,      \* the element is attached to the document
    isUpdatePending,  \* a Lit update (render) is scheduled for the instance
    rendered,         \* values interpolated by the instance's last render(), or Null
    thrown,           \* message of the Error the last call threw at the host, or Undefined
    writes,           \* number of assignments to sipCore.ForceUser so far
    applies,          \* number of sipCore.applyForceUser() calls so far
    last,             \* the event that produced this state
    persistedAtLoad,  \* what localStorage held when the page was loaded
    steps

vars == <<ForceUser, session, registered, listeners, config, isConnected,
          isUpdatePending, rendered, thrown, writes, applies, last,
          persistedAtLoad, steps>>

\* sipCore as the card sees it: the persisted slot, the live session, the call counts.
SipCore == [ForceUser |-> ForceUser, session |-> session,
            writes |-> writes, applies |-> applies]

\* An event of the run: who did what, with which argument, and what it did to
\* sipCore (changed: the value of configChanged; w, a: writes and applies made).
Event(op, inst, cfg, changed, w, a) ==
    [op |-> op, inst |-> inst, cfg |-> cfg, changed |-> changed, w |-> w, a |-> a]

Plain(op, inst) == Event(op, inst, Null, FALSE, 0, 0)

----------------------------------------------------------------------------
(* JavaScript helpers *)

\* !v for a string-or-undefined value
Falsy(v) == v = Undefined \/ v = ""

\* a ?? b
Coalesce(a, b) == IF a = Undefined THEN b ELSE a

ExtensionRequired == "sip-user-card: 'extension' is required"
PasswordRequired == "sip-user-card: 'password' is required"

----------------------------------------------------------------------------
(* sipCore *)

\* sipCore.ForceUser = value  (one record written to localStorage)
SetForceUser(core, value) ==
    [core EXCEPT !.ForceUser = value, !.writes = @ + 1]

\* sipCore.applyForceUser(): drop the old connection, log in with the stored identity
applyForceUser(core) ==
    [core EXCEPT !.session = core.ForceUser, !.applies = @ + 1]

----------------------------------------------------------------------------
(* SIPUserCard.setConfig *)

\* Faulty variant: the password check is forgotten.
RequiredFieldError_NoPassword(cfg) ==
    IF Falsy(cfg.extension) THEN ExtensionRequired ELSE Undefined

\* Faulty variant: tests `=== undefined` instead of falsiness, so "" passes.
RequiredFieldError_UndefinedOnly(cfg) ==
    IF cfg.extension = Undefined THEN ExtensionRequired
    ELSE IF cfg.password = Undefined THEN PasswordRequired
    ELSE Undefined

\* The validation at the head of setConfig: the message thrown, or Undefined.
RequiredFieldError(cfg) ==
    IF Falsy(cfg.extension) THEN ExtensionRequired
    ELSE IF Falsy(cfg.password) THEN PasswordRequired
    ELSE Undefined

\* Faulty variant: no guard, every call counts as a change.
configChanged_Always(currentForceUser, cfg) == TRUE

\* Faulty variant: the password is left out of the comparison.
configChanged_NoPassword(currentForceUser, cfg) ==
    \/ currentForceUser = Null
    \/ currentForceUser.extension # cfg.extension

\* Faulty variant: display_name takes part in the comparison.
configChanged_WithDisplayName(currentForceUser, cfg) ==
    \/ currentForceUser = Null
    \/ currentForceUser.extension # cfg.extension
    \/ currentForceUser.password # cfg.password
    \/ currentForceUser.display_name # cfg.display_name

\* Faulty variant: only an empty store counts as a change.
configChanged_FirstTimeOnly(currentForceUser, cfg) == currentForceUser = Null

\* const configChanged = !currentForceUser || ... !== ... || ... !== ...
configChanged(currentForceUser, cfg) ==
    \/ currentForceUser = Null
    \/ currentForceUser.extension # cfg.extension
    \/ currentForceUser.password # cfg.password

\* Faulty variant: applyForceUser() is called before the write.
UpdateCredentials_ApplyFirst(core, cfg) ==
    SetForceUser(applyForceUser(core),
                 [extension |-> cfg.extension,
                  password |-> cfg.password,
                  display_name |-> cfg.display_name])

\* The body of `if (configChanged) { ... }`: write, then apply.
UpdateCredentials(core, cfg) ==
    applyForceUser(
        SetForceUser(core, [extension |-> cfg.extension,
                            password |-> cfg.password,
                            display_name |-> cfg.display_name]))

\* Faulty variant: the guard compares with the instance's own recorded config
\* instead of the stored identity.
setConfig_ComparesOwnConfig(self, cfg) ==
    LET err == RequiredFieldError(cfg)
        changed == configChanged(config[self], cfg)
        core == IF changed THEN UpdateCredentials(SipCore, cfg) ELSE SipCore
    IN  /\ steps < MaxSteps
        /\ steps' = steps + 1
        /\ UNCHANGED persistedAtLoad
        /\ thrown' = err
        /\ UNCHANGED <<registered, listeners, isConnected, rendered>>
        /\ IF err # Undefined
           THEN /\ last' = Event("setConfig", self, cfg, FALSE, 0, 0)
                /\ UNCHANGED <<ForceUser, session, writes, applies, config,
                               isUpdatePending>>
           ELSE /\ ForceUser' = core.ForceUser
                /\ session' = core.session
                /\ writes' = core.writes
                /\ applies' = core.applies
                /\ config' = [config EXCEPT ![self] = cfg]
                /\ isUpdatePending' = [isUpdatePending EXCEPT ![self] = TRUE]
                /\ last' = Event("setConfig", self, cfg, changed,
                                 core.writes - writes, core.applies - applies)

\* Faulty variant: `this.config = config` sits inside `if (configChanged)`.
setConfig_RecordsOnChange(self, cfg) ==
    LET err == RequiredFieldError(cfg)
        changed == configChanged(ForceUser, cfg)
        core == IF changed THEN UpdateCredentials(SipCore, cfg) ELSE SipCore
    IN  /\ steps < MaxSteps
        /\ steps' = steps + 1
        /\ UNCHANGED persistedAtLoad
        /\ thrown' = err
        /\ UNCHANGED <<registered, listeners, isConnected, rendered>>
        /\ IF err # Undefined
           THEN /\ last' = Event("setConfig", self, cfg, FALSE, 0, 0)
                /\ UNCHANGED <<ForceUser, session, writes, applies, config,
                               isUpdatePending>>
           ELSE /\ ForceUser' = core.ForceUser
                /\ session' = core.session
                /\ writes' = core.writes
                /\ applies' = core.applies
                /\ IF changed
                   THEN /\ config' = [config EXCEPT ![self] = cfg]
                        /\ isUpdatePending' = [isUpdatePending EXCEPT ![self] = TRUE]
                   ELSE UNCHANGED <<config, isUpdatePending>>
                /\ last' = Event("setConfig", self, cfg, changed,
                                 core.writes - writes, core.applies - applies)

setConfig(self, cfg) ==
    LET err == RequiredFieldError(cfg)
        changed == configChanged(ForceUser, cfg)
        core == IF changed THEN UpdateCredentials(SipCore, cfg) ELSE SipCore
    IN  /\ steps < MaxSteps
        /\ steps' = steps + 1
        /\ UNCHANGED persistedAtLoad
        /\ thrown' = err
        /\ UNCHANGED <<registered, listeners, isConnected, rendered>>
        /\ IF err # Undefined
           THEN /\ last' = Event("setConfig", self, cfg, FALSE, 0, 0)
                /\ UNCHANGED <<ForceUser, session, writes, applies, config,
                               isUpdatePending>>
           ELSE /\ ForceUser' = core.ForceUser
                /\ session' = core.session
                /\ writes' = core.writes
                /\ applies' = core.applies
                \* this.config = config; a @state() property: assigning requests an update
                /\ config' = [config EXCEPT ![self] = cfg]
                /\ isUpdatePending' = [isUpdatePending EXCEPT ![self] = TRUE]
                /\ last' = Event("setConfig", self, cfg, changed,
                                 core.writes - writes, core.applies - applies)

----------------------------------------------------------------------------
(* Lifecycle, notification, render *)

\* window.addEventListener: a listener already in the list is not added again
addEventListener(list, self) ==
    IF list[self] > 0 THEN list ELSE [list EXCEPT ![self] = 1]

\* window.removeEventListener
removeEventListener(list, self) == [list EXCEPT ![self] = 0]

\* Faulty variant: the listener is put on the element, which window's event
\* never reaches, instead of on window.
connectedCallback_ListensOnElement(self) ==
    /\ steps < MaxSteps
    /\ ~isConnected[self]
    /\ steps' = steps + 1
    /\ UNCHANGED persistedAtLoad
    /\ isConnected' = [isConnected EXCEPT ![self] = TRUE]
    /\ thrown' = Undefined
    /\ last' = Plain("connectedCallback", self)
    /\ UNCHANGED <<ForceUser, session, registered, listeners, config,
                   isUpdatePending, rendered, writes, applies>>

connectedCallback(self) ==
    /\ steps < MaxSteps
    /\ ~isConnected[self]
    /\ steps' = steps + 1
    /\ UNCHANGED persistedAtLoad
    /\ isConnected' = [isConnected EXCEPT ![self] = TRUE]
    /\ listeners' = addEventListener(listeners, self)
    /\ thrown' = Undefined
    /\ last' = Plain("connectedCallback", self)
    /\ UNCHANGED <<ForceUser, session, registered, config, isUpdatePending,
                   rendered, writes, applies>>

\* Faulty variant: removing the card also removes the stored identity.
disconnectedCallback_Clears(self) ==
    /\ steps < MaxSteps
    /\ isConnected[self]
    /\ steps' = steps + 1
    /\ UNCHANGED persistedAtLoad
    /\ isConnected' = [isConnected EXCEPT ![self] = FALSE]
    /\ listeners' = removeEventListener(listeners, self)
    /\ ForceUser' = Null
    /\ thrown' = Undefined
    /\ last' = Plain("disconnectedCallback", self)
    /\ UNCHANGED <<session, registered, config, isUpdatePending,
                   rendered, writes, applies>>

\* Faulty variant: the listener is not removed.
disconnectedCallback_NoRemove(self) ==
    /\ steps < MaxSteps
    /\ isConnected[self]
    /\ steps' = steps + 1
    /\ UNCHANGED persistedAtLoad
    /\ isConnected' = [isConnected EXCEPT ![self] = FALSE]
    /\ thrown' = Undefined
    /\ last' = Plain("disconnectedCallback", self)
    /\ UNCHANGED <<ForceUser, session, registered, listeners, config,
                   isUpdatePending, rendered, writes, applies>>

disconnectedCallback(self) ==
    /\ steps < MaxSteps
    /\ isConnected[self]
    /\ steps' = steps + 1
    /\ UNCHANGED persistedAtLoad
    /\ isConnected' = [isConnected EXCEPT ![self] = FALSE]
    /\ listeners' = removeEventListener(listeners, self)
    /\ thrown' = Undefined
    /\ last' = Plain("disconnectedCallback", self)
    \* "Credentials remain in localStorage"
    /\ UNCHANGED <<ForceUser, session, registered, config, isUpdatePending,
                   rendered, writes, applies>>

\* private updateHandler = () => { this.requestUpdate(); }
updateHandler(pending, self) == [pending EXCEPT ![self] = TRUE]

\* window dispatches "sipcore-update": every listener in the list is called.
SipcoreUpdate ==
    /\ steps < MaxSteps
    /\ steps' = steps + 1
    /\ UNCHANGED persistedAtLoad
    /\ isUpdatePending' =
          [i \in Inst |-> IF listeners[i] > 0
                          THEN updateHandler(isUpdatePending, i)[i]
                          ELSE isUpdatePending[i]]
    /\ thrown' = Undefined
    /\ last' = Plain("sipcore-update", "window")
    /\ UNCHANGED <<ForceUser, session, registered, listeners, config, isConnected,
                   rendered, writes, applies>>

\* The registration subsystem's status changes on its own schedule.
RegistrationChange ==
    /\ steps < MaxSteps
    /\ steps' = steps + 1
    /\ UNCHANGED persistedAtLoad
    /\ registered' = ~registered
    /\ thrown' = Undefined
    /\ last' = Plain("registration", "sipCore")
    /\ UNCHANGED <<ForceUser, session, listeners, config, isConnected,
                   isUpdatePending, rendered, writes, applies>>

\* Faulty variant: the status shown is the one of the instance's previous render.
RenderOutput_Cached(self) ==
    LET ext == IF config[self] = Null THEN "?" ELSE Coalesce(config[self].extension, "?")
        name == IF config[self] = Null THEN ext
                ELSE Coalesce(config[self].display_name, ext)
        reg == IF rendered[self] = Null THEN registered
               ELSE rendered[self].status = "Registered"
    IN  [dot |-> IF reg THEN "registered" ELSE "unregistered",
         name |-> name,
         ext |-> ext,
         status |-> IF reg THEN "Registered" ELSE "Unregistered"]

\* The values render() interpolates into its template.
RenderOutput(self) ==
    LET ext == IF config[self] = Null THEN "?" ELSE Coalesce(config[self].extension, "?")
        name == IF config[self] = Null THEN ext
                ELSE Coalesce(config[self].display_name, ext)
    IN  [dot |-> IF registered THEN "registered" ELSE "unregistered",
         name |-> name,
         ext |-> ext,
         status |-> IF registered THEN "Registered" ELSE "Unregistered"]

\* Faulty variant: a render that finds the device unregistered asks for the
\* registration again.
render_RetriesApply(self) ==
    /\ steps < MaxSteps
    /\ isUpdatePending[self]
    /\ steps' = steps + 1
    /\ UNCHANGED persistedAtLoad
    /\ rendered' = [rendered EXCEPT ![self] = RenderOutput(self)]
    /\ isUpdatePending' = [isUpdatePending EXCEPT ![self] = FALSE]
    /\ thrown' = Undefined
    /\ last' = Plain("render", self)
    /\ IF registered
       THEN UNCHANGED <<session, applies>>
       ELSE /\ session' = applyForceUser(SipCore).session
            /\ applies' = applyForceUser(SipCore).applies
    /\ UNCHANGED <<ForceUser, registered, listeners, config, isConnected, writes>>

\* Lit performs the scheduled update: render() runs.
render(self) ==
    /\ steps < MaxSteps
    /\ isUpdatePending[self]
    /\ steps' = steps + 1
    /\ UNCHANGED persistedAtLoad
    /\ rendered' = [rendered EXCEPT ![self] = RenderOutput(self)]
    /\ isUpdatePending' = [isUpdatePending EXCEPT ![self] = FALSE]
    /\ thrown' = Undefined
    /\ last' = Plain("render", self)
    /\ UNCHANGED <<ForceUser, session, registered, listeners, config, isConnected,
                   writes, applies>>

\* The operator's out-of-band maintenance action:
\* localStorage.removeItem('sipcore-force-user')
ManualClear ==
    /\ steps < MaxSteps
    /\ steps' = steps + 1
    /\ UNCHANGED persistedAtLoad
    /\ ForceUser' = Null
    /\ thrown' = Undefined
    /\ last' = Plain("clear", "operator")
    /\ UNCHANGED <<session, registered, listeners, config, isConnected,
                   isUpdatePending, rendered, writes, applies>>

\* The page (device) reloads: every instance and the window's listener list are
\* gone, localStorage survives, the registration subsystem starts from the
\* persisted identity.
Restart ==
    /\ steps < MaxSteps
    /\ steps' = steps + 1
    /\ persistedAtLoad' = ForceUser
    /\ UNCHANGED <<ForceUser, writes, applies>>
    /\ session' = ForceUser
    /\ registered' = FALSE
    /\ listeners' = [i \in Inst |-> 0]
    /\ config' = [i \in Inst |-> Null]
    /\ isConnected' = [i \in Inst |-> FALSE]
    /\ isUpdatePending' = [i \in Inst |-> TRUE]
    /\ rendered' = [i \in Inst |-> Null]
    /\ thrown' = Undefined
    /\ last' = Plain("restart", "device")

----------------------------------------------------------------------------

Init ==
    /\ ForceUser = Null
    /\ session = Null
    /\ registered = FALSE
    /\ listeners = [i \in Inst |-> 0]
    /\ config = [i \in Inst |-> Null]
    /\ isConnected = [i \in Inst |-> FALSE]
    /\ isUpdatePending = [i \in Inst |-> TRUE]
    /\ rendered = [i \in Inst |-> Null]
    /\ thrown = Undefined
    /\ writes = 0
    /\ applies = 0
    /\ last = Plain("init", "device")
    /\ persistedAtLoad = Null
    /\ steps = 0

Next ==
    \/ \E self \in Inst, cfg \in SIPUserCardConfig : setConfig(self, cfg)
    \/ \E self \in Inst : connectedCallback(self)
    \/ \E self \in Inst : disconnectedCallback(self)
    \/ \E self \in Inst : render(self)
    \/ SipcoreUpdate
    \/ RegistrationChange
    \/ ManualClear
    \/ Restart

Spec == Init /\ [][Next]_vars

----------------------------------------------------------------------------
(* Vocabulary of the properties *)

\* The state was produced by a setConfig call that returned normally.
Submitted(e) == e.op = "setConfig" /\ e.cfg # Null

NonEmpty(v) == v # Undefined /\ v # ""

ValidConfig(cfg) == NonEmpty(cfg.extension) /\ NonEmpty(cfg.password)

\* The stored identity has exactly the extension and password of cfg.
SameCredentials(stored, cfg) ==
    /\ stored # Null
    /\ stored.extension = cfg.extension
    /\ stored.password = cfg.password

Identity(cfg) ==
    [extension |-> cfg.extension, password |-> cfg.password,
     display_name |-> cfg.display_name]

\* The label "<name> (<ext>)" of a render.
Label(out) == out.name \o " (" \o out.ext \o ")"

LabelOf(cfg) ==
    (IF cfg.display_name = Undefined THEN cfg.extension ELSE cfg.display_name)
        \o " (" \o cfg.extension \o ")"

----------------------------------------------------------------------------
(* C1 *)

\* Two setConfig calls in a row, both returning normally, with byte-identical
\* extension and password (display_name free).
TwoIdenticalSubmits ==
    /\ Submitted(last) /\ ValidConfig(last.cfg)
    /\ Submitted(last') /\ ValidConfig(last'.cfg)
    /\ last'.cfg.extension = last.cfg.extension
    /\ last'.cfg.password = last.cfg.password

\* C1 as stated: two setConfig calls in a row with byte-identical extension and
\* password make exactly one store write and exactly one applyForceUser() call
\* in total.
C1_ExactlyOneInTotal ==
    [][TwoIdenticalSubmits => last.w + last'.w = 1 /\ last.a + last'.a = 1]_vars

\* C1 amended: of two setConfig calls in a row with byte-identical extension and
\* password the second never writes nor applies; the two make one write and one
\* apply in total when the first found the store empty or holding another
\* extension or password, and none when the store already held them.
C1_SecondSubmitIsSilent ==
    [][TwoIdenticalSubmits =>
          /\ writes' = writes /\ applies' = applies
          /\ ForceUser' = ForceUser /\ session' = session
          /\ last'.w = 0 /\ last'.a = 0
          /\ last.w = (IF last.changed THEN 1 ELSE 0)
          /\ last.a = (IF last.changed THEN 1 ELSE 0)
          /\ last.w + last'.w <= 1 /\ last.a + last'.a <= 1]_vars

\* C1 witness: a second, identical-credentials call with another display_name
\* has just returned after a first call that wrote and applied.
C1_Witness ==
    /\ Submitted(last) /\ ~last.changed
    /\ writes = 1 /\ applies = 1 /\ steps = 2
    /\ ForceUser # Null
    /\ SameCredentials(ForceUser, last.cfg)
    /\ last.cfg.display_name # ForceUser.display_name

----------------------------------------------------------------------------
(* C2 *)

\* C2: a setConfig call with a valid config writes and applies if and only if
\* the store is empty or the stored extension or the stored password differs
\* from the config's; it then writes once and applies once and the store holds
\* exactly the config's extension, password and display_name; otherwise it
\* makes no write and no apply.
C2_ChangeSensitivity ==
    [][(last'.op = "setConfig" /\ ValidConfig(last'.cfg)) =>
          LET cfg == last'.cfg
              differs == \/ ForceUser = Null
                         \/ ForceUser.extension # cfg.extension
                         \/ ForceUser.password # cfg.password
          IN  IF differs
              THEN /\ writes' = writes + 1
                   /\ applies' = applies + 1
                   /\ ForceUser' = Identity(cfg)
              ELSE /\ writes' = writes
                   /\ applies' = applies
                   /\ ForceUser' = ForceUser]_vars

\* C2 witness: a call that found another identity stored has replaced it.
C2_Witness ==
    /\ Submitted(last) /\ last.changed
    /\ writes = 2 /\ applies = 2
    /\ ForceUser = Identity(last.cfg)
    /\ session # Null

----------------------------------------------------------------------------
(* C3 *)

\* A call whose extension and password are the stored ones and whose
\* display_name is not the stored one.
LabelOnlySubmit ==
    /\ last'.op = "setConfig" /\ ValidConfig(last'.cfg)
    /\ SameCredentials(ForceUser, last'.cfg)
    /\ last'.cfg.display_name # ForceUser.display_name

\* C3: a setConfig call with the stored extension and password and another
\* display_name makes no write and no apply and leaves the stored record
\* (its display_name included) as it was, while the instance's label becomes
\* the one of the new config: a render is scheduled and what it shows is the
\* new display_name (the extension when the new config has none).
C3_LabelIndependence ==
    [][LabelOnlySubmit =>
          \A self \in Inst : last'.inst = self =>
              /\ writes' = writes /\ applies' = applies
              /\ ForceUser' = ForceUser
              /\ session' = session
              /\ isUpdatePending'[self]
              /\ Label(RenderOutput(self)') = LabelOf(last'.cfg)
              /\ RenderOutput(self)'.name =
                    (IF last'.cfg.display_name = Undefined
                     THEN last'.cfg.extension ELSE last'.cfg.display_name)]_vars

\* C3 witness: after a label-only call the instance has rendered the new
\* display_name while the store still holds the old record.
C3_Witness ==
    /\ last.op = "render"
    /\ writes = 1 /\ applies = 1
    /\ config[last.inst] # Null
    /\ SameCredentials(ForceUser, config[last.inst])
    /\ ForceUser.display_name = Undefined
    /\ rendered[last.inst].name = "Lobby"
    /\ Label(rendered[last.inst]) = "Lobby (" \o ForceUser.extension \o ")"

----------------------------------------------------------------------------
(* C4 *)

\* C4: a setConfig call whose extension or password is missing or empty throws
\* the error naming the (first) missing field and changes nothing: store,
\* session, call counts, the instance's recorded config, its scheduled updates
\* and what it renders are as before the call.
C4_ValidationFailsFast ==
    [][(last'.op = "setConfig" /\ ~ValidConfig(last'.cfg)) =>
          \A self \in Inst : last'.inst = self =>
              /\ thrown' = (IF NonEmpty(last'.cfg.extension)
                            THEN "sip-user-card: 'password' is required"
                            ELSE "sip-user-card: 'extension' is required")
              /\ UNCHANGED <<ForceUser, session, writes, applies, config,
                             isUpdatePending, rendered, listeners, registered>>
              /\ RenderOutput(self)' = RenderOutput(self)]_vars

\* C4 witness: a call without password was rejected on a device that holds a
\* stored identity and an instance with a recorded config.
C4_Witness ==
    /\ last.op = "setConfig"
    /\ thrown = PasswordRequired
    /\ last.cfg.password = ""
    /\ ForceUser # Null
    /\ config[last.inst] # Null
    /\ config[last.inst].extension # last.cfg.extension

----------------------------------------------------------------------------
(* C5 *)

\* C5: the stored ForceUser is absent or has a non-empty extension and a
\* non-empty password, whatever the host, the operator and the subsystem do.
C5_NoPartialIdentity ==
    \/ ForceUser = Null
    \/ /\ ForceUser.extension \notin {Undefined, ""}
       /\ ForceUser.password \notin {Undefined, ""}

\* C5 witness: an invalid call has just been rejected while an identity is
\* stored.
C5_Witness ==
    /\ last.op = "setConfig"
    /\ thrown = ExtensionRequired
    /\ ForceUser # Null
    /\ writes = 2

----------------------------------------------------------------------------
(* C6 *)

\* C6: applyForceUser() is invoked only inside a setConfig call that detected a
\* change, once per call, and after the write: the identity the registration
\* subsystem is asked to log in with is the submitted one, never the one stored
\* before the call.
C6_WriteBeforeApply ==
    [][applies' # applies =>
          /\ last'.op = "setConfig" /\ last'.changed
          /\ applies' = applies + 1
          /\ writes' = writes + 1
          /\ session' = Identity(last'.cfg)
          /\ session' = ForceUser'
          /\ session' # ForceUser]_vars

\* C6 witness: the second change of the run has been applied and the session
\* runs under the identity just submitted.
C6_Witness ==
    /\ Submitted(last) /\ last.a = 1
    /\ applies = 2
    /\ session = Identity(last.cfg)
    /\ last.inst = "B"

----------------------------------------------------------------------------
(* C7 *)

----------------------------------------------------------------------------
(* C8 *)

\* C8: once an instance has been disconnected (the card removed from the
\* dashboard) no ForceUser is stored.
C8_RemovalClearsOverride ==
    last.op = "disconnectedCallback" => ForceUser = Null

----------------------------------------------------------------------------
(* C9 *)

\* C9: an instance has exactly one "sipcore-update" listener registered while
\* it is connected and none while it is not.
C9_OneSubscriptionWhileActive ==
    \A i \in Inst : listeners[i] = (IF isConnected[i] THEN 1 ELSE 0)

\* C9 witness: one instance was just disconnected while the other stays
\* connected.
C9_Witness ==
    /\ last.op = "disconnectedCallback"
    /\ \E i \in Inst : i # last.inst /\ isConnected[i] /\ listeners[i] = 1
    /\ listeners[last.inst] = 0

----------------------------------------------------------------------------
(* C10 *)

\* C10: every "sipcore-update" event schedules a render of every instance that
\* has a listener; a scheduled render is discharged only by rendering; and each
\* render shows sipCore.registered as it is when the render runs.
C10_NotificationDrivenRefresh ==
    [][/\ last'.op = "sipcore-update" =>
            \A i \in Inst : listeners[i] > 0 => isUpdatePending'[i]
       /\ \A i \in Inst :
            (isUpdatePending[i] /\ ~isUpdatePending'[i]) =>
                last'.op = "render" /\ last'.inst = i
       /\ last'.op = "render" =>
            /\ rendered'[last'.inst].status =
                  (IF registered' THEN "Registered" ELSE "Unregistered")
            /\ rendered'[last'.inst].dot =
                  (IF registered' THEN "registered" ELSE "unregistered")]_vars

\* C10 witness: with no setConfig call at all, a connected instance that had
\* rendered "Unregistered" got the notification after the status changed and
\* has its refresh scheduled.
C10_Witness ==
    /\ last.op = "sipcore-update"
    /\ registered
    /\ \E i \in Inst :
          /\ isConnected[i] /\ listeners[i] = 1
          /\ config[i] = Null
          /\ rendered[i] # Null /\ rendered[i].status = "Unregistered"
          /\ isUpdatePending[i]

----------------------------------------------------------------------------
(* C11 *)

\* C11: applyForceUser() is never retried nor issued spontaneously: every step
\* makes as many applies as writes, namely one when it is a setConfig call that
\* evaluated configChanged to true and none otherwise (a notification, a status
\* change, a render, connecting, disconnecting, a clear, a restart, a rejected
\* or unchanged setConfig), so the totals of applies, of writes and of changed
\* calls agree in every state.
C11_NoRetryOfApply ==
    [][/\ applies' - applies =
            (IF last'.op = "setConfig" /\ last'.changed THEN 1 ELSE 0)
       /\ writes' - writes = applies' - applies
       /\ writes' = applies'
       /\ last'.op # "setConfig" => session' = session \/ last'.op = "restart"]_vars

\* C11 witness: after the one change of the run was applied, the instance has
\* rendered "Unregistered" and still only one apply was made.
C11_Witness ==
    /\ last.op = "render"
    /\ ~registered
    /\ config[last.inst] # Null
    /\ rendered[last.inst].status = "Unregistered"
    /\ applies = 1 /\ writes = 1
    /\ steps = 4

----------------------------------------------------------------------------
(* C12 *)

\* C12: a manual clear empties the slot and makes no apply and no write (the
\* running session is left alone); and a setConfig call with a valid config
\* that finds the slot empty is a change -- one write, one apply, the submitted
\* identity stored -- also when its extension and password are those of the
\* session that ran before the clear.
C12_ClearThenSubmit ==
    [][/\ last'.op = "clear" =>
            /\ ForceUser' = Null
            /\ applies' = applies /\ writes' = writes
            /\ session' = session
       /\ (ForceUser = Null /\ last'.op = "setConfig" /\ ValidConfig(last'.cfg)) =>
            /\ last'.changed
            /\ writes' = writes + 1
            /\ applies' = applies + 1
            /\ ForceUser' = Identity(last'.cfg)
            /\ session' = Identity(last'.cfg)]_vars

\* C12 witness: instance A stored an identity, the operator cleared the slot,
\* and instance B's call with the same extension and password wrote and applied
\* again.
C12_Witness ==
    /\ Submitted(last) /\ last.changed /\ last.inst = "B"
    /\ steps = 3 /\ writes = 2 /\ applies = 2
    /\ config["A"] # Null
    /\ config["A"].extension = last.cfg.extension
    /\ config["A"].password = last.cfg.password
    /\ ForceUser = Identity(last.cfg)

----------------------------------------------------------------------------
(* C13 *)

\* C13: a setConfig call that returns normally records the submitted config in
\* the instance, whether or not it detected a change, and schedules a render;
\* and every render shows the label "<name> (<extension>)" of the recorded
\* config, where name is its display_name, or its extension when it has none.
C13_LabelOfLatestConfig ==
    [][\A self \in Inst :
          /\ (last'.op = "setConfig" /\ last'.inst = self /\ ValidConfig(last'.cfg)) =>
                /\ thrown' = Undefined
                /\ config'[self] = last'.cfg
                /\ isUpdatePending'[self]
                /\ Label(RenderOutput(self)') = LabelOf(last'.cfg)
          /\ (last'.op = "render" /\ last'.inst = self /\ config[self] # Null) =>
                /\ rendered'[self].ext = config[self].extension
                /\ rendered'[self].name =
                      (IF config[self].display_name = Undefined
                       THEN config[self].extension
                       ELSE config[self].display_name)
                /\ Label(rendered'[self]) = LabelOf(config[self])]_vars

\* C13 witness: instance B's call found its credentials already stored (written
\* by a call without display_name), so it changed nothing in the store, and its
\* recorded config gives the label "Lobby (200)".
C13_Witness ==
    /\ Submitted(last) /\ ~last.changed /\ last.inst = "B"
    /\ config["B"] = last.cfg
    /\ ForceUser.display_name = Undefined
    /\ LabelOf(config["B"]) = "Lobby (200)"
    /\ Label(RenderOutput("B")) = "Lobby (200)"
    /\ isUpdatePending["B"]

----------------------------------------------------------------------------
(* C14 *)

\* C14: one "sipcore-update" event reaches every connected instance, each of
\* which has a render scheduled afterwards, and changes nothing for an instance
\* that is not connected.
C14_DeviceWideChannel ==
    [][last'.op = "sipcore-update" =>
          \A i \in Inst :
             /\ isConnected[i] => isUpdatePending'[i]
             /\ ~isConnected[i] => isUpdatePending'[i] = isUpdatePending[i]
             /\ isConnected'[i] = isConnected[i]]_vars

\* C14 witness: both instances are connected when the event is emitted; A,
\* which had already rendered, has a new render scheduled, and so has B.
C14_Witness ==
    /\ last.op = "sipcore-update"
    /\ \A i \in Inst : isConnected[i] /\ isUpdatePending[i]
    /\ rendered["A"] # Null
    /\ rendered["B"] = Null

----------------------------------------------------------------------------
(* C15 *)

\* C15: the last valid setConfig call wins on the shared slot: after such a
\* call, by whichever instance, the stored extension and password are the
\* submitted ones, and until the next valid call or a manual clear no step
\* changes the stored identity.
C15_LastSubmitWins ==
    [][/\ (last'.op = "setConfig" /\ ValidConfig(last'.cfg)) =>
            /\ ForceUser' # Null
            /\ ForceUser'.extension = last'.cfg.extension
            /\ ForceUser'.password = last'.cfg.password
       /\ (~(last'.op = "setConfig" /\ ValidConfig(last'.cfg)) /\ last'.op # "clear")
            => ForceUser' = ForceUser]_vars

\* C15 witness: B's call came after A's with another extension and another
\* password, and the store holds B's.
C15_Witness ==
    /\ Submitted(last) /\ last.inst = "B" /\ last.changed
    /\ steps = 2 /\ writes = 2
    /\ config["A"] # Null
    /\ config["A"].extension # last.cfg.extension
    /\ config["A"].password # last.cfg.password
    /\ ForceUser.extension = last.cfg.extension
    /\ ForceUser.password = last.cfg.password

----------------------------------------------------------------------------
(* C16 *)

\* C16: the guard compares with the stored identity, not with the instance's
\* own recorded config: a setConfig call that repeats the extension and
\* password the instance has recorded, made while the store holds another
\* extension or password, writes once and applies once again.
C16_GuardReadsTheStore ==
    [][\A self \in Inst :
          (/\ last'.op = "setConfig" /\ last'.inst = self /\ ValidConfig(last'.cfg)
           /\ config[self] # Null
           /\ config[self].extension = last'.cfg.extension
           /\ config[self].password = last'.cfg.password
           /\ ~SameCredentials(ForceUser, last'.cfg))
          => /\ writes' = writes + 1
             /\ applies' = applies + 1
             /\ ForceUser' = Identity(last'.cfg)
             /\ session' = Identity(last'.cfg)]_vars

\* C16 witness: A, B and A again submitted, A and B with different credentials;
\* each of the three calls wrote and applied.
C16_Witness ==
    /\ Submitted(last) /\ last.inst = "A" /\ last.w = 1 /\ last.a = 1
    /\ steps = 3 /\ writes = 3 /\ applies = 3
    /\ config["B"] # Null
    /\ ~SameCredentials(ForceUser, config["B"])
    /\ config["A"] = last.cfg

----------------------------------------------------------------------------
(* C17 *)

\* C17: after a reload that found an identity persisted, and while the store
\* still holds that identity, the first setConfig call of a fresh instance
\* (one with no recorded config yet) whose extension and password are the
\* persisted ones makes no write and no apply and leaves store and session as
\* they are.
C17_NoReRegistrationAfterRestart ==
    [][\A self \in Inst :
          (/\ persistedAtLoad # Null
           /\ ForceUser = persistedAtLoad
           /\ config[self] = Null
           /\ last'.op = "setConfig" /\ last'.inst = self /\ ValidConfig(last'.cfg)
           /\ SameCredentials(persistedAtLoad, last'.cfg))
          => /\ ~last'.changed
             /\ writes' = writes /\ applies' = applies
             /\ ForceUser' = ForceUser
             /\ session' = session
             /\ config'[self] = last'.cfg]_vars

\* C17 witness: an identity was written, the device restarted, and the first
\* call of the new session, with the persisted extension and password, has
\* returned without a write or an apply.
C17_Witness ==
    /\ Submitted(last) /\ ~last.changed /\ last.w = 0 /\ last.a = 0
    /\ steps = 3 /\ writes = 1 /\ applies = 1
    /\ persistedAtLoad # Null
    /\ ForceUser = persistedAtLoad
    /\ SameCredentials(persistedAtLoad, last.cfg)
    /\ session = persistedAtLoad
    /\ \A i \in Inst : i # last.inst => config[i] = Null

====
